---- MODULE Spec2Model ----
(***************************************************************************)
(* Course-progression state machine of CourseTakenService                  *)
(* (src/src/CourseTakenModule/service/course.taken.service.ts).            *)
(*                                                                         *)
(* The enrollment store, the catalog (lessons, parts, tests) and the       *)
(* clock are the state.  The lesson/part/test services, the repository and *)
(* the mapper are not part of the service file; they are modelled from     *)
(* the interface the specification gives them (section 6).                 *)
(*                                                                         *)
(* Completion is a JavaScript number.  It is modelled as an exact fraction *)
(* n/d extended with +Infinity (1/0) and NaN (0/0), following the IEEE     *)
(* rules for x/0, Infinity*0 and comparisons with NaN; rounding of finite  *)
(* values is not modelled.                                                 *)
(***************************************************************************)
EXTENDS Integers, Sequences, FiniteSets, TLC

\* Sequence numbers of lessons, parts and tests range over 1..MaxSeq.
MaxSeq == 2
\* The catalog holds at most MaxUnits lessons, parts and tests together.
MaxUnits == 4
\* The clock (Date.now()) takes the values 0..MaxClock.
MaxClock == 1

Users == {"u1", "u2"}
Courses == {"c1"}
Keys == Users \X Courses
SeqNums == 1..MaxSeq

TAKEN == "TAKEN"
COMPLETED == "COMPLETED"

VARIABLES
  store,      \* enrollment records keyed by <<user, course>>
  catalog,    \* [lessons, parts, tests]: the units that exist
  now,        \* the clock
  last,       \* the last call and what it returned
  returned,   \* per key: what the calls returned (the last completion, or
              \* under SpecWalk the positions so far and whose turn it is)
  pc,         \* per client: position inside an in-flight attendAClass
  loc         \* per client: the locals of the in-flight call

vars == <<store, catalog, now, last, returned, pc, loc>>

-----------------------------------------------------------------------------
(* JavaScript numbers: fractions with Infinity and NaN *)

RECURSIVE Gcd(_, _)
Gcd(a, b) == IF b = 0 THEN a ELSE Gcd(b, a % b)

NaN == [n |-> 0, d |-> 0]
Infinity == [n |-> 1, d |-> 0]

Frac(n, d) ==
  IF d = 0 THEN (IF n = 0 THEN NaN ELSE Infinity)
  ELSE LET g == Gcd(n, d) IN [n |-> n \div g, d |-> d \div g]

Zero == Frac(0, 1)
Hundred == Frac(100, 1)

IsNaN(x) == x = NaN
IsFinite(x) == x.d # 0

\* x / k for an integer k >= 0
JsDiv(x, k) ==
  IF IsNaN(x) THEN NaN
  ELSE IF x = Infinity THEN Infinity
  ELSE IF k = 0 THEN (IF x.n = 0 THEN NaN ELSE Infinity)
  ELSE Frac(x.n, x.d * k)

\* x * k for an integer k >= 0
JsMul(x, k) ==
  IF IsNaN(x) THEN NaN
  ELSE IF x = Infinity THEN (IF k = 0 THEN NaN ELSE Infinity)
  ELSE Frac(x.n * k, x.d)

JsAdd(x, y) ==
  IF IsNaN(x) \/ IsNaN(y) THEN NaN
  ELSE IF x = Infinity \/ y = Infinity THEN Infinity
  ELSE Frac(x.n * y.d + y.n * x.d, x.d * y.d)

\* x > y; false when either is NaN
JsGt(x, y) ==
  IF IsNaN(x) \/ IsNaN(y) THEN FALSE
  ELSE IF x = Infinity THEN y # Infinity
  ELSE IF y = Infinity THEN FALSE
  ELSE x.n * y.d > y.n * x.d

\* x >= y; false when either is NaN
JsGe(x, y) == JsGt(x, y) \/ (~IsNaN(x) /\ x = y)

-----------------------------------------------------------------------------
(* Hierarchy Lookup: the lesson, part and test services *)

Absent == <<>>

SetMax(S) == IF S = {} THEN 0 ELSE CHOOSE m \in S : \A x \in S : x <= m

findLessonByCourseIdAndSeqNum(cat, course, n) ==
  IF <<course, n>> \in cat.lessons THEN <<course, n>> ELSE Absent

getLessonIdByCourseIdAndSeqNum(cat, course, n) ==
  findLessonByCourseIdAndSeqNum(cat, course, n)

findPartByLessonIdAndSeqNum(cat, lesson, n) ==
  IF lesson # Absent /\ Append(lesson, n) \in cat.parts
  THEN Append(lesson, n) ELSE Absent

getPartIdByLessonIdAndSeqNum(cat, lesson, n) ==
  findPartByLessonIdAndSeqNum(cat, lesson, n)

findTestByPartIdAndSeqNum(cat, part, n) ==
  IF part # Absent /\ Append(part, n) \in cat.tests
  THEN Append(part, n) ELSE Absent

getMaxValueForLesson(cat, course) ==
  SetMax({u[2] : u \in {x \in cat.lessons : x[1] = course}})

getMaxValueForPart(cat, lesson) ==
  SetMax({u[3] : u \in {x \in cat.parts : SubSeq(x, 1, 2) = lesson}})

getMaxValueForTest(cat, part) ==
  SetMax({u[4] : u \in {x \in cat.tests : SubSeq(x, 1, 3) = part}})

-----------------------------------------------------------------------------
(* Enrollment Store: the repository and the mapper *)

NoRecord == [absent |-> TRUE]
NoDate == -1

\* repository.findByUserIdAndCourseId / repository.findOne: the record or nothing
repoFind(st, user, course) == st[<<user, course>>]

\* repository.save: insert or overwrite the row of the entity's key
repoSave(st, user, course, entity) == [st EXCEPT ![<<user, course>>] = entity]

\* repository.delete: removing a missing row is no error
repoDelete(st, user, course) == [st EXCEPT ![<<user, course>>] = NoRecord]

\* mapper.toEntity on a NewCourseTakenDTO: the columns at their defaults
newEntity ==
  [currentLesson |-> 0, currentPart |-> 0, currentTest |-> 0,
   status |-> TAKEN, completition |-> Zero,
   courseStartDate |-> NoDate, courseCompleteDate |-> NoDate]

\* { ...courseTaken, ...courseTakenUpdatedInfo }: the patch's fields win
Merge(rec, patch) ==
  [f \in DOMAIN rec |-> IF f \in DOMAIN patch THEN patch[f] ELSE rec[f]]

\* mapper.toUpdateDto: the fields an advancement changes
toUpdateDto(ct) ==
  [currentLesson |-> ct.currentLesson, currentPart |-> ct.currentPart,
   currentTest |-> ct.currentTest, status |-> ct.status,
   completition |-> ct.completition,
   courseCompleteDate |-> ct.courseCompleteDate]

-----------------------------------------------------------------------------
(* CourseTakenService *)

NoSnap == [none |-> TRUE]

Outcome(k, st, rec, snap, n) ==
  [kind |-> k, store |-> st, rec |-> rec, snap |-> snap, steps |-> n]

findByUserIdAndCourseId(st, user, course) ==
  LET courseTaken == repoFind(st, user, course) IN
  IF courseTaken = NoRecord
  THEN Outcome("NotEnrolled", st, NoRecord, NoSnap, 0)
  ELSE Outcome("ok", st, courseTaken, NoSnap, 0)

update(st, user, course, courseTakenUpdatedInfo) ==
  LET found == findByUserIdAndCourseId(st, user, course) IN
  IF found.kind # "ok" THEN found
  ELSE LET entity == Merge(found.rec, courseTakenUpdatedInfo) IN
       Outcome("ok", repoSave(st, user, course, entity), entity, NoSnap, 0)

\* prepareCourseTakenUpdatedInfo without lines 159 and 160: an enrollment with
\* nothing next is left as it is
prepareCourseTakenUpdatedInfoNoEnd(courseTaken, nextTest, nextPart, nextLesson, t) ==
  IF nextTest # Absent
  THEN [courseTaken EXCEPT !.currentTest = @ + 1]
  ELSE IF nextPart # Absent
  THEN [courseTaken EXCEPT !.currentTest = 1, !.currentPart = @ + 1]
  ELSE IF nextLesson # Absent
  THEN [courseTaken EXCEPT !.currentTest = 1, !.currentPart = 1,
                           !.currentLesson = @ + 1]
  ELSE courseTaken

\* prepareCourseTakenUpdatedInfo that takes the pointers back to the start when
\* it completes the course
prepareCourseTakenUpdatedInfoRewind(courseTaken, nextTest, nextPart, nextLesson, t) ==
  IF nextTest # Absent
  THEN [courseTaken EXCEPT !.currentTest = @ + 1]
  ELSE IF nextPart # Absent
  THEN [courseTaken EXCEPT !.currentTest = 1, !.currentPart = @ + 1]
  ELSE IF nextLesson # Absent
  THEN [courseTaken EXCEPT !.currentTest = 1, !.currentPart = 1,
                           !.currentLesson = @ + 1]
  ELSE [courseTaken EXCEPT !.status = COMPLETED, !.courseCompleteDate = t,
                           !.currentLesson = 1, !.currentPart = 1,
                           !.currentTest = 1]

\* prepareCourseTakenUpdatedInfo without the reset of line 152: a carry to the
\* next part keeps currentTest
prepareCourseTakenUpdatedInfoNoReset(courseTaken, nextTest, nextPart, nextLesson, t) ==
  IF nextTest # Absent
  THEN [courseTaken EXCEPT !.currentTest = @ + 1]
  ELSE IF nextPart # Absent
  THEN [courseTaken EXCEPT !.currentPart = @ + 1]
  ELSE IF nextLesson # Absent
  THEN [courseTaken EXCEPT !.currentTest = 1, !.currentPart = 1,
                           !.currentLesson = @ + 1]
  ELSE [courseTaken EXCEPT !.status = COMPLETED, !.courseCompleteDate = t]

\* prepareCourseTakenUpdatedInfo that marks the enrollment TAKEN whenever it
\* moves a pointer
prepareCourseTakenUpdatedInfoRetake(courseTaken, nextTest, nextPart, nextLesson, t) ==
  IF nextTest # Absent
  THEN [courseTaken EXCEPT !.currentTest = @ + 1, !.status = TAKEN]
  ELSE IF nextPart # Absent
  THEN [courseTaken EXCEPT !.currentTest = 1, !.currentPart = @ + 1,
                           !.status = TAKEN]
  ELSE IF nextLesson # Absent
  THEN [courseTaken EXCEPT !.currentTest = 1, !.currentPart = 1,
                           !.currentLesson = @ + 1, !.status = TAKEN]
  ELSE [courseTaken EXCEPT !.status = COMPLETED, !.courseCompleteDate = t]

\* prepareCourseTakenUpdatedInfo without the branch of lines 152 to 155: a
\* part that ends carries to the next lesson or completes the course
prepareCourseTakenUpdatedInfoNoPart(courseTaken, nextTest, nextPart, nextLesson, t) ==
  IF nextTest # Absent
  THEN [courseTaken EXCEPT !.currentTest = @ + 1]
  ELSE IF nextLesson # Absent
  THEN [courseTaken EXCEPT !.currentTest = 1, !.currentPart = 1,
                           !.currentLesson = @ + 1]
  ELSE [courseTaken EXCEPT !.status = COMPLETED, !.courseCompleteDate = t]

prepareCourseTakenUpdatedInfo(courseTaken, nextTest, nextPart, nextLesson, t) ==
  IF nextTest # Absent
  THEN [courseTaken EXCEPT !.currentTest = @ + 1]
  ELSE IF nextPart # Absent
  THEN [courseTaken EXCEPT !.currentTest = 1, !.currentPart = @ + 1]
  ELSE IF nextLesson # Absent
  THEN [courseTaken EXCEPT !.currentTest = 1, !.currentPart = 1,
                           !.currentLesson = @ + 1]
  ELSE [courseTaken EXCEPT !.status = COMPLETED, !.courseCompleteDate = t]

\* calculateCompletition without the test of line 173: the formula, whatever
\* the status
calculateCompletitionNoStatus(cat, course, courseTaken, currentLesson, currentPart) ==
  LET percentualPerLesson == JsDiv(Hundred, getMaxValueForLesson(cat, course))
      percentualPerPart ==
        JsDiv(percentualPerLesson, getMaxValueForPart(cat, currentLesson))
      percentualPerTest ==
        JsDiv(percentualPerPart, getMaxValueForTest(cat, currentPart))
      completition ==
        JsAdd(JsAdd(JsMul(percentualPerLesson, courseTaken.currentLesson - 1),
                    JsMul(percentualPerPart, courseTaken.currentPart - 1)),
              JsMul(percentualPerTest, courseTaken.currentTest - 1))
  IN IF JsGt(completition, Hundred) THEN Hundred ELSE completition

calculateCompletition(cat, course, courseTaken, currentLesson, currentPart) ==
  LET lessonsAmount == getMaxValueForLesson(cat, course)
      partsAmount == getMaxValueForPart(cat, currentLesson)
      testsAmount == getMaxValueForTest(cat, currentPart)
      percentualPerLesson == JsDiv(Hundred, lessonsAmount)
      percentualPerPart == JsDiv(percentualPerLesson, partsAmount)
      percentualPerTest == JsDiv(percentualPerPart, testsAmount)
      completition ==
        IF courseTaken.status = TAKEN
        THEN JsAdd(JsAdd(JsMul(percentualPerLesson, courseTaken.currentLesson - 1),
                         JsMul(percentualPerPart, courseTaken.currentPart - 1)),
                   JsMul(percentualPerTest, courseTaken.currentTest - 1))
        ELSE Hundred
  IN IF JsGt(completition, Hundred) THEN Hundred ELSE completition

\* What updateCourseStatus has computed when it reaches its call of update
advanced(cat, course, read, t) ==
  LET currentLessonId ==
        getLessonIdByCourseIdAndSeqNum(cat, course, read.currentLesson)
      currentPartId ==
        getPartIdByLessonIdAndSeqNum(cat, currentLessonId, read.currentPart)
      nextTest ==
        findTestByPartIdAndSeqNum(cat, currentPartId, read.currentTest + 1)
      nextPart ==
        findPartByLessonIdAndSeqNum(cat, currentLessonId, read.currentPart + 1)
      nextLesson ==
        findLessonByCourseIdAndSeqNum(cat, course, read.currentLesson + 1)
      courseTaken ==
        prepareCourseTakenUpdatedInfo(read, nextTest, nextPart, nextLesson, t)
  IN [courseTaken EXCEPT !.completition =
        calculateCompletition(cat, course, courseTaken,
                              currentLessonId, currentPartId)]

updateCourseStatus(st, cat, user, course, t) ==
  LET read == repoFind(st, user, course) IN
  IF read = NoRecord
  THEN \* courseTaken.currentLesson of undefined
       Outcome("TypeError", st, NoRecord, NoSnap, 0)
  ELSE update(st, user, course, toUpdateDto(advanced(cat, course, read, t)))

prepareAttendAClassDTO(courseTaken, user, course, currentLesson, currentPart, currentTest) ==
  [user |-> user, course |-> course,
   currentLesson |-> currentLesson, currentPart |-> currentPart,
   currentTest |-> currentTest,
   completition |-> courseTaken.completition, status |-> courseTaken.status]

\* The test the pointers of courseTaken resolve to, through lesson and part
resolveTest(cat, course, courseTaken) ==
  LET currentLesson ==
        findLessonByCourseIdAndSeqNum(cat, course, courseTaken.currentLesson)
      currentPart ==
        findPartByLessonIdAndSeqNum(cat, currentLesson, courseTaken.currentPart)
  IN findTestByPartIdAndSeqNum(cat, currentPart, courseTaken.currentTest)

\* attendAClass without the return of line 91: it advances whatever it resolved
attendAClassNoReturn(st, cat, user, course, t, n) ==
  LET found == findByUserIdAndCourseId(st, user, course) IN
  IF found.kind # "ok" THEN [found EXCEPT !.steps = n]
  ELSE LET upd == updateCourseStatus(st, cat, user, course, t) IN
       Outcome(upd.kind, upd.store, upd.rec,
               prepareAttendAClassDTO(upd.rec, user, course,
                                      Absent, Absent, Absent),
               n + 1)

\* attendAClass without the recursion of line 105: it returns after one
\* updateCourseStatus, whatever the pointers then reference
attendAClassOnce(st, cat, user, course, t, n) ==
  LET found == findByUserIdAndCourseId(st, user, course) IN
  IF found.kind # "ok" THEN [found EXCEPT !.steps = n]
  ELSE
    LET courseTaken == found.rec
        currentTest == resolveTest(cat, course, courseTaken)
    IN
    IF currentTest # Absent
    THEN Outcome("ok", st, courseTaken,
                 prepareAttendAClassDTO(courseTaken, user, course,
                   SubSeq(currentTest, 1, 2), SubSeq(currentTest, 1, 3),
                   currentTest),
                 n)
    ELSE
      LET upd == updateCourseStatus(st, cat, user, course, t) IN
      IF upd.kind # "ok" THEN [upd EXCEPT !.steps = n + 1]
      ELSE Outcome("ok", upd.store, upd.rec,
                   prepareAttendAClassDTO(upd.rec, user, course,
                                          Absent, Absent, Absent),
                   n + 1)

RECURSIVE attendAClass(_, _, _, _, _, _)
attendAClass(st, cat, user, course, t, n) ==
  LET found == findByUserIdAndCourseId(st, user, course) IN
  IF found.kind # "ok" THEN [found EXCEPT !.steps = n]
  ELSE
    LET courseTaken == found.rec
        currentTest == resolveTest(cat, course, courseTaken)
    IN
    IF currentTest # Absent
    THEN Outcome("ok", st, courseTaken,
                 prepareAttendAClassDTO(courseTaken, user, course,
                   SubSeq(currentTest, 1, 2), SubSeq(currentTest, 1, 3),
                   currentTest),
                 n)
    ELSE
      LET upd == updateCourseStatus(st, cat, user, course, t) IN
      IF upd.kind # "ok" THEN [upd EXCEPT !.steps = n + 1]
      ELSE IF upd.rec.status = COMPLETED
      THEN Outcome("ok", upd.store, upd.rec,
                   prepareAttendAClassDTO(upd.rec, user, course,
                                          Absent, Absent, Absent),
                   n + 1)
      ELSE attendAClass(upd.store, cat, user, course, t, n + 1)

\* add without lines 34 to 36: the pointers are left at the defaults of the
\* entity
addNoPointers(st, cat, user, course, t) ==
  LET courseAlreadyTaken == repoFind(st, user, course) IN
  IF courseAlreadyTaken # NoRecord
  THEN Outcome("AlreadyEnrolled", st, NoRecord, NoSnap, 0)
  ELSE
    LET newCourseTakenEntity ==
          [newEntity EXCEPT !.status = TAKEN, !.courseStartDate = t]
    IN attendAClass(repoSave(st, user, course, newCourseTakenEntity),
                    cat, user, course, t, 0)

\* add without the test of lines 28 to 30: it saves over whatever is stored
addNoCheck(st, cat, user, course, t) ==
  LET newCourseTakenEntity ==
        [newEntity EXCEPT !.currentLesson = 1, !.currentPart = 1,
                          !.currentTest = 1, !.status = TAKEN,
                          !.courseStartDate = t]
  IN attendAClass(repoSave(st, user, course, newCourseTakenEntity),
                  cat, user, course, t, 0)

add(st, cat, user, course, t) ==
  LET courseAlreadyTaken == repoFind(st, user, course) IN
  IF courseAlreadyTaken # NoRecord
  THEN Outcome("AlreadyEnrolled", st, NoRecord, NoSnap, 0)
  ELSE
    LET newCourseTakenEntity ==
          [newEntity EXCEPT !.currentLesson = 1, !.currentPart = 1,
                            !.currentTest = 1, !.status = TAKEN,
                            !.courseStartDate = t]
    IN attendAClass(repoSave(st, user, course, newCourseTakenEntity),
                    cat, user, course, t, 0)

\* !courseTaken on what the repository's find returns: an array, which is
\* truthy in JavaScript even when it is empty
IsFalsy(rows) == FALSE

getAllByUserId(st, user) ==
  LET courseTaken == {k \in Keys : k[1] = user /\ st[k] # NoRecord} IN
  IF IsFalsy(courseTaken) THEN [kind |-> "NoRecordsFound", rows |-> {}]
  ELSE [kind |-> "ok", rows |-> courseTaken]

getAllByCourseId(st, course) ==
  LET courseTaken == {k \in Keys : k[2] = course /\ st[k] # NoRecord} IN
  IF IsFalsy(courseTaken) THEN [kind |-> "NoRecordsFound", rows |-> {}]
  ELSE [kind |-> "ok", rows |-> courseTaken]

delete(st, user, course) == repoDelete(st, user, course)

-----------------------------------------------------------------------------
(* The catalog subsystem: units are added and removed out of band *)

EmptyCatalog == [lessons |-> {}, parts |-> {}, tests |-> {}]

AllLessons == Courses \X SeqNums
AllParts == Courses \X SeqNums \X SeqNums
AllTests == Courses \X SeqNums \X SeqNums \X SeqNums

UnitCount(cat) ==
  Cardinality(cat.lessons) + Cardinality(cat.parts) + Cardinality(cat.tests)

\* The catalogs one more unit can be added to cat to give
Grown(cat) ==
  {[cat EXCEPT !.lessons = @ \cup {u}] : u \in AllLessons \ cat.lessons}
  \cup {[cat EXCEPT !.parts = @ \cup {u}] :
          u \in {x \in AllParts \ cat.parts : SubSeq(x, 1, 2) \in cat.lessons}}
  \cup {[cat EXCEPT !.tests = @ \cup {u}] :
          u \in {x \in AllTests \ cat.tests : SubSeq(x, 1, 3) \in cat.parts}}

\* The catalogs a unit can be removed from cat to give; what it holds goes too
Shrunk(cat) ==
  {[lessons |-> cat.lessons \ {u},
    parts |-> {x \in cat.parts : SubSeq(x, 1, 2) # u},
    tests |-> {x \in cat.tests : SubSeq(x, 1, 2) # u}] : u \in cat.lessons}
  \cup {[cat EXCEPT !.parts = @ \ {u},
                    !.tests = {x \in @ : SubSeq(x, 1, 3) # u}] : u \in cat.parts}
  \cup {[cat EXCEPT !.tests = @ \ {u}] : u \in cat.tests}

RECURSIVE CatalogsUpTo(_)
CatalogsUpTo(n) ==
  IF n = 0 THEN {EmptyCatalog}
  ELSE LET smaller == CatalogsUpTo(n - 1) IN
       smaller \cup UNION {Grown(cat) : cat \in smaller}

Catalogs == CatalogsUpTo(MaxUnits)

-----------------------------------------------------------------------------
(* State *)

Clients == {"a", "b"}

NoValue == [none |-> TRUE]
NoCall ==
  [op |-> "none", user |-> "-", course |-> "-", kind |-> "-",
   snap |-> NoSnap, rec |-> NoRecord, rows |-> {}, steps |-> 0]

Called(op, user, course, r) ==
  [op |-> op, user |-> user, course |-> course, kind |-> r.kind,
   snap |-> r.snap, rec |-> r.rec, rows |-> {}, steps |-> r.steps]

Listed(op, user, course, r) ==
  [op |-> op, user |-> user, course |-> course, kind |-> r.kind,
   snap |-> NoSnap, rec |-> NoRecord, rows |-> r.rows, steps |-> 0]

\* A client's locals: the call, what it has read, the row it has written in
\* its transaction and not yet committed (tx), and what it returned
Idle ==
  [op |-> "-", courseTaken |-> NoRecord, read |-> NoRecord, dto |-> NoRecord,
   found |-> NoRecord, tx |-> NoRecord, steps |-> 0, kind |-> "-",
   snap |-> NoSnap]

InitRest ==
  /\ now = 0
  /\ last = NoCall
  /\ returned = [k \in Keys |-> NoValue]
  /\ pc = [p \in Clients |-> "idle"]
  /\ loc = [p \in Clients |-> Idle]

InitCommon == store = [k \in Keys |-> NoRecord] /\ InitRest

Init == InitCommon /\ catalog = EmptyCatalog

\* What a call of attendAClass returning r leaves in returned
Returned(user, course, r) ==
  IF r.kind = "ok" THEN [returned EXCEPT ![<<user, course>>] = r.snap.completition]
  ELSE returned

-----------------------------------------------------------------------------
(* The service's calls, each run from start to end *)

Add(user, course) ==
  LET r == add(store, catalog, user, course, now) IN
  /\ store' = r.store
  /\ last' = Called("add", user, course, r)
  /\ UNCHANGED <<catalog, now, returned, pc, loc>>

\* add, with the completition it returns kept for the next call to compare
AddRecorded(user, course) ==
  LET r == add(store, catalog, user, course, now) IN
  /\ store' = r.store
  /\ last' = Called("add", user, course, r)
  /\ returned' = Returned(user, course, r)
  /\ UNCHANGED <<catalog, now, pc, loc>>

AttendAClass(user, course) ==
  LET r == attendAClass(store, catalog, user, course, now, 0) IN
  /\ store' = r.store
  /\ last' = Called("attendAClass", user, course, r)
  /\ UNCHANGED <<catalog, now, returned, pc, loc>>

\* attendAClass, with the completition it returns kept for the next call
AttendAClassRecorded(user, course) ==
  LET r == attendAClass(store, catalog, user, course, now, 0) IN
  /\ store' = r.store
  /\ last' = Called("attendAClass", user, course, r)
  /\ returned' = Returned(user, course, r)
  /\ UNCHANGED <<catalog, now, pc, loc>>

UpdateCourseStatus(user, course) ==
  LET r == updateCourseStatus(store, catalog, user, course, now) IN
  /\ store' = r.store
  /\ last' = Called("updateCourseStatus", user, course, r)
  /\ UNCHANGED <<catalog, now, returned, pc, loc>>

\* The fields a caller of update supplies
UpdatePatches ==
  {[status |-> s] : s \in {TAKEN, COMPLETED}}
  \cup {[currentTest |-> t] : t \in SeqNums}

Update(user, course, courseTakenUpdatedInfo) ==
  LET r == update(store, user, course, courseTakenUpdatedInfo) IN
  /\ store' = r.store
  /\ last' = Called("update", user, course, r)
  /\ UNCHANGED <<catalog, now, returned, pc, loc>>

FindByUserIdAndCourseId(user, course) ==
  LET r == findByUserIdAndCourseId(store, user, course) IN
  /\ last' = Called("findByUserIdAndCourseId", user, course, r)
  /\ UNCHANGED <<store, catalog, now, returned, pc, loc>>

GetAllByUserId(user) ==
  /\ last' = Listed("getAllByUserId", user, "-", getAllByUserId(store, user))
  /\ UNCHANGED <<store, catalog, now, returned, pc, loc>>

GetAllByCourseId(course) ==
  /\ last' = Listed("getAllByCourseId", "-", course,
                    getAllByCourseId(store, course))
  /\ UNCHANGED <<store, catalog, now, returned, pc, loc>>

Delete(user, course) ==
  /\ store' = delete(store, user, course)
  /\ last' = [NoCall EXCEPT !.op = "delete", !.user = user, !.course = course,
                            !.kind = "ok"]
  /\ returned' = [returned EXCEPT ![<<user, course>>] = NoValue]
  /\ UNCHANGED <<catalog, now, pc, loc>>

(* The environment *)

AddUnit ==
  /\ UnitCount(catalog) < MaxUnits
  /\ catalog' \in Grown(catalog)
  /\ last' = NoCall
  /\ UNCHANGED <<store, now, returned, pc, loc>>

RemoveUnit ==
  /\ catalog' \in Shrunk(catalog)
  /\ last' = NoCall
  /\ UNCHANGED <<store, now, returned, pc, loc>>

Tick ==
  /\ now < MaxClock
  /\ now' = now + 1
  /\ last' = NoCall
  /\ UNCHANGED <<store, catalog, returned, pc, loc>>

Engine(users) ==
  \E user \in users, course \in Courses :
    \/ Add(user, course)
    \/ AttendAClass(user, course)
    \/ UpdateCourseStatus(user, course)
    \/ Delete(user, course)

EngineRecorded(users) ==
  \E user \in users, course \in Courses :
    \/ AddRecorded(user, course)
    \/ AttendAClassRecorded(user, course)
    \/ UpdateCourseStatus(user, course)
    \/ Delete(user, course)

Reads(users) ==
  \E user \in users, course \in Courses :
    \/ FindByUserIdAndCourseId(user, course)
    \/ GetAllByUserId(user)
    \/ GetAllByCourseId(course)

Learner == {"u1"}

\* One learner, while the catalog is edited
Next ==
  \/ Engine(Learner)
  \/ AddUnit
  \/ RemoveUnit

Spec == Init /\ [][Next]_vars

\* The same, with what each call returned kept to compare the next with
NextHistory ==
  \/ EngineRecorded(Learner)
  \/ AddUnit
  \/ RemoveUnit

SpecHistory == Init /\ [][NextHistory]_vars

\* One learner over a catalog that does not change, while time passes
InitFixed == InitCommon /\ catalog \in Catalogs

NextFixed == Engine(Learner) \/ Tick

SpecFixed == InitFixed /\ [][NextFixed]_vars

\* Every call of the service, for every user, over a course of lesson 1 with
\* one part that has a test
InitStore ==
  /\ InitCommon
  /\ catalog \in {cat \in Catalogs : /\ cat.lessons = {<<"c1", 1>>}
                                    /\ Cardinality(cat.parts) = 1
                                    /\ cat.tests # {}}

NextStore ==
  \/ Engine(Users)
  \/ Reads(Users)
  \/ \E user \in Users, course \in Courses, info \in UpdatePatches :
       Update(user, course, info)

SpecStore == InitStore /\ [][NextStore]_vars

-----------------------------------------------------------------------------
(* attendAClass and updateCourseStatus step by step: one step for each access *)
(* to the store and one for what the call does between two of them.  Every   *)
(* call is @Transactional: its write is seen by the others when it returns,  *)
(* and while it is pending no other call writes the row.                     *)

TheUser == "u1"
TheCourse == "c1"
TheKey == <<TheUser, TheCourse>>

\* The row as client p reads it
View(p) == IF loc[p].tx # NoRecord THEN loc[p].tx ELSE store[TheKey]

\* Client p returns: its transaction commits, or rolls back on an exception
Return(p, kind, snap) ==
  /\ pc' = [pc EXCEPT ![p] = "done"]
  /\ loc' = [loc EXCEPT ![p].kind = kind, ![p].snap = snap, ![p].tx = NoRecord]
  /\ store' = IF kind = "ok" /\ loc[p].tx # NoRecord
              THEN [store EXCEPT ![TheKey] = loc[p].tx] ELSE store

Goto(p, label) == pc' = [pc EXCEPT ![p] = label] /\ UNCHANGED store

Begin(p, op) ==
  /\ pc[p] = "idle"
  /\ loc' = [loc EXCEPT ![p].op = op]
  /\ Goto(p, IF op = "attendAClass" THEN "load" ELSE "advance_read")
  /\ UNCHANGED <<catalog, now, last, returned>>

\* attendAClass, line 75
Load(p) ==
  /\ pc[p] = "load"
  /\ IF View(p) = NoRecord THEN Return(p, "NotEnrolled", NoSnap)
     ELSE /\ loc' = [loc EXCEPT ![p].courseTaken = View(p)]
          /\ Goto(p, "resolve")
  /\ UNCHANGED <<catalog, now, last, returned>>

\* attendAClass, lines 78 to 94
Resolve(p) ==
  /\ pc[p] = "resolve"
  /\ LET currentTest == resolveTest(catalog, TheCourse, loc[p].courseTaken) IN
     IF currentTest # Absent
     THEN Return(p, "ok",
                 prepareAttendAClassDTO(loc[p].courseTaken, TheUser, TheCourse,
                   SubSeq(currentTest, 1, 2), SubSeq(currentTest, 1, 3),
                   currentTest))
     ELSE Goto(p, "advance_read") /\ UNCHANGED loc
  /\ UNCHANGED <<catalog, now, last, returned>>

\* updateCourseStatus, line 132
AdvanceRead(p) ==
  /\ pc[p] = "advance_read"
  /\ IF View(p) = NoRecord THEN Return(p, "TypeError", NoSnap)
     ELSE /\ loc' = [loc EXCEPT ![p].read = View(p)]
          /\ Goto(p, "advance_probe")
  /\ UNCHANGED <<catalog, now, last, returned>>

\* updateCourseStatus, lines 133 to 141
AdvanceProbe(p) ==
  /\ pc[p] = "advance_probe"
  /\ loc' = [loc EXCEPT
       ![p].dto = toUpdateDto(advanced(catalog, TheCourse, loc[p].read, now)),
       ![p].steps = @ + 1]
  /\ Goto(p, "update_find")
  /\ UNCHANGED <<catalog, now, last, returned>>

\* update, line 48
UpdateFind(p) ==
  /\ pc[p] = "update_find"
  /\ IF View(p) = NoRecord THEN Return(p, "NotEnrolled", NoSnap)
     ELSE /\ loc' = [loc EXCEPT ![p].found = View(p)]
          /\ Goto(p, "update_save")
  /\ UNCHANGED <<catalog, now, last, returned>>

\* UpdateSave that saves the pointers of the advancement only, leaving status
\* and completition for a later save
UpdateSavePointers(p) ==
  /\ pc[p] = "update_save"
  /\ \A q \in Clients \ {p} : loc[q].tx = NoRecord
  /\ LET entity == Merge(loc[p].found,
                         [currentLesson |-> loc[p].dto.currentLesson,
                          currentPart |-> loc[p].dto.currentPart,
                          currentTest |-> loc[p].dto.currentTest])
     IN
     IF loc[p].op = "updateCourseStatus"
     THEN /\ pc' = [pc EXCEPT ![p] = "done"]
          /\ loc' = [loc EXCEPT ![p].kind = "ok", ![p].courseTaken = entity]
          /\ store' = [store EXCEPT ![TheKey] = entity]
     ELSE /\ loc' = [loc EXCEPT ![p].tx = entity, ![p].courseTaken = entity]
          /\ Goto(p, "check")
  /\ UNCHANGED <<catalog, now, last, returned>>

\* update, line 49
UpdateSave(p) ==
  /\ pc[p] = "update_save"
  /\ \A q \in Clients \ {p} : loc[q].tx = NoRecord
  /\ LET entity == Merge(loc[p].found, loc[p].dto) IN
     IF loc[p].op = "updateCourseStatus"
     THEN /\ pc' = [pc EXCEPT ![p] = "done"]
          /\ loc' = [loc EXCEPT ![p].kind = "ok", ![p].courseTaken = entity]
          /\ store' = [store EXCEPT ![TheKey] = entity]
     ELSE /\ loc' = [loc EXCEPT ![p].tx = entity, ![p].courseTaken = entity]
          /\ Goto(p, "check")
  /\ UNCHANGED <<catalog, now, last, returned>>

\* Check without the test of line 100: the call returns after one
\* updateCourseStatus, whatever the status
CheckOnce(p) ==
  /\ pc[p] = "check"
  /\ Return(p, "ok",
            prepareAttendAClassDTO(loc[p].courseTaken, TheUser, TheCourse,
                                   Absent, Absent, Absent))
  /\ UNCHANGED <<catalog, now, last, returned>>

\* attendAClass, lines 100 to 105
Check(p) ==
  /\ pc[p] = "check"
  /\ IF loc[p].courseTaken.status = COMPLETED
     THEN Return(p, "ok",
                 prepareAttendAClassDTO(loc[p].courseTaken, TheUser, TheCourse,
                                        Absent, Absent, Absent))
     ELSE Goto(p, "load") /\ UNCHANGED loc
  /\ UNCHANGED <<catalog, now, last, returned>>

Step(p) ==
  \/ Load(p)
  \/ Resolve(p)
  \/ AdvanceRead(p)
  \/ AdvanceProbe(p)
  \/ UpdateFind(p)
  \/ UpdateSave(p)
  \/ Check(p)

\* The record add saves, before it calls attendAClass
Enrolled ==
  [newEntity EXCEPT !.currentLesson = 1, !.currentPart = 1, !.currentTest = 1,
                    !.status = TAKEN, !.courseStartDate = 0]

\* Two clients call for the same enrollment at the same time
InitConc ==
  /\ InitRest
  /\ store = [k \in Keys |-> IF k = TheKey THEN Enrolled ELSE NoRecord]
  /\ catalog \in Catalogs

NextConc ==
  \E p \in Clients :
    \/ \E op \in {"attendAClass", "updateCourseStatus"} : Begin(p, op)
    \/ Step(p)

SpecConc == InitConc /\ [][NextConc]_vars

\* One client calls attendAClass once; before the call the catalog is edited
\* and update sets the pointers and the status to any values; during the call
\* the catalog does not change
Pointers == 1..(MaxSeq + 1)

PointerPatches ==
  {[currentLesson |-> n] : n \in Pointers}
  \cup {[currentPart |-> n] : n \in Pointers}
  \cup {[currentTest |-> n] : n \in Pointers}
  \cup {[status |-> s] : s \in {TAKEN, COMPLETED}}

InitSolo ==
  /\ InitRest
  /\ store = [k \in Keys |-> IF k = TheKey THEN Enrolled ELSE NoRecord]
  /\ catalog = EmptyCatalog

Arrange ==
  /\ pc["a"] = "idle"
  /\ \/ AddUnit
     \/ RemoveUnit
     \/ \E info \in PointerPatches : Update(TheUser, TheCourse, info)

NextSolo == Arrange \/ Begin("a", "attendAClass") \/ Step("a")

SpecSolo == InitSolo /\ [][NextSolo]_vars

-----------------------------------------------------------------------------
(* Properties *)

\* The pointers of the enrollment of key k resolve to a lesson, a part and a test
Resolves(st, cat, k) ==
  st[k] # NoRecord /\ resolveTest(cat, k[2], st[k]) # Absent

\* The snapshot of the enrollment of key k at the position its pointers name
SnapshotAt(st, k) ==
  LET ct == st[k]
      lesson == <<k[2], ct.currentLesson>>
      part == Append(lesson, ct.currentPart)
  IN [user |-> k[1], course |-> k[2], currentLesson |-> lesson,
      currentPart |-> part, currentTest |-> Append(part, ct.currentTest),
      completition |-> ct.completition, status |-> ct.status]

\* The step is a call of op for key k
IsCall(op, k) == last'.op = op /\ <<last'.user, last'.course>> = k

\* C1: when the stored pointers resolve, attendAClass writes nothing and
\* returns the snapshot of the stored record at that position, and a second
\* call right after it returns the same snapshot and writes nothing either.
C1_IdempotentRead ==
  [][\A k \in Keys :
       (Resolves(store, catalog, k) /\ IsCall("attendAClass", k))
       => /\ store' = store
          /\ last'.kind = "ok"
          /\ last'.snap = SnapshotAt(store, k)
          /\ LET again == attendAClass(store', catalog', k[1], k[2], now', 0) IN
             again.snap = last'.snap /\ again.store = store']_vars

\* C1 witness: attendAClass has returned a position without advancing
C1_Witness ==
  /\ last.op = "attendAClass"
  /\ last.kind = "ok"
  /\ last.steps = 0
  /\ last.snap.currentTest # Absent
  /\ Resolves(store, catalog, <<last.user, last.course>>)

\* The store after a call of op that runs alone on store st
RunAlone(st, op) ==
  IF op = "attendAClass"
  THEN attendAClass(st, catalog, TheUser, TheCourse, now, 0).store
  ELSE updateCourseStatus(st, catalog, TheUser, TheCourse, now).store

EnrolledStore == [k \in Keys |-> IF k = TheKey THEN Enrolled ELSE NoRecord]

\* C2: when two concurrent calls for the same enrollment have both returned,
\* the stored enrollment is what the two calls leave when one runs after the
\* other, in one of the two orders.
C2_Serializable ==
  (\A p \in Clients : pc[p] = "done")
  => store \in {RunAlone(RunAlone(EnrolledStore, loc["a"].op), loc["b"].op),
                RunAlone(RunAlone(EnrolledStore, loc["b"].op), loc["a"].op)}

\* The step is a call that returns the snapshot of attendAClass for key k
ReturnsSnapshot(k) ==
  (IsCall("attendAClass", k) \/ IsCall("add", k)) /\ last'.kind = "ok"

\* C3: the completion a call of attendAClass returns is greater than or equal
\* to the completion the call before it returned for the same enrollment,
\* whatever was advanced or edited in the catalog between the two.  (Stated
\* for two completions that are numbers: NaN compares with nothing.)
C3_MonotonicCompletion ==
  [][\A k \in Keys :
       (/\ ReturnsSnapshot(k)
        /\ returned[k] # NoValue
        /\ ~IsNaN(returned[k])
        /\ ~IsNaN(last'.snap.completition))
       => JsGe(last'.snap.completition, returned[k])]_vars

\* Whether completition is 100 exactly when the status is COMPLETED
Pinned(r) == (r.completition = Hundred) <=> (r.status = COMPLETED)

\* C4 as stated: every snapshot attendAClass returns has completition = 100 if
\* and only if its status is COMPLETED.
C4_SnapshotPinned ==
  (last.op = "attendAClass" /\ last.kind = "ok") => Pinned(last.snap)

\* C4: a snapshot attendAClass returns has completition = 100 if and only if
\* its status is COMPLETED, when the call has advanced the enrollment or the
\* stored enrollment had completition = 100 exactly when COMPLETED; a call
\* that returns without advancing reports the stored values as they are.
C4_PinnedWhenAdvancedOrStored ==
  [][\A k \in Keys :
       (/\ IsCall("attendAClass", k)
        /\ last'.kind = "ok"
        /\ (last'.steps > 0 \/ Pinned(store[k])))
       => /\ Pinned(last'.snap)
          /\ last'.snap.completition = store'[k].completition
          /\ last'.snap.status = store'[k].status]_vars

C4_Witness ==
  /\ last.op = "attendAClass"
  /\ last.kind = "ok"
  /\ last.steps > 0
  /\ last.snap.status = COMPLETED
  /\ last.snap.completition = Hundred

\* C5: once courseCompleteDate is set, no later call of attendAClass or
\* updateCourseStatus on the enrollment changes it.
C5_CompleteDateAssignedOnce ==
  [][\A k \in Keys :
       (/\ IsCall("attendAClass", k) \/ IsCall("updateCourseStatus", k)
        /\ store[k] # NoRecord
        /\ store[k].status = COMPLETED
        /\ store[k].courseCompleteDate # NoDate)
       => store'[k].courseCompleteDate = store[k].courseCompleteDate]_vars

\* The pointers of enrollment r, and their lexicographic order
Triple(r) == <<r.currentLesson, r.currentPart, r.currentTest>>

LexLess(x, y) ==
  \/ x[1] < y[1]
  \/ x[1] = y[1] /\ x[2] < y[2]
  \/ x[1] = y[1] /\ x[2] = y[2] /\ x[3] < y[3]

\* The guards of Step(p): the call of client p can take its next step
CanStep(p) ==
  \/ pc[p] \in {"load", "resolve", "advance_read", "advance_probe",
                "update_find", "check"}
  \/ pc[p] = "update_save" /\ \A q \in Clients \ {p} : loc[q].tx = NoRecord

\* C7 as stated: the updateCourseStatus steps of one attendAClass call are at
\* most as many as the (lesson, part, test) positions of the course.
C7_StepsWithinPositions == loc["a"].steps <= Cardinality(catalog.tests)

\* C7: over a catalog that does not change, a call of attendAClass returns:
\* until it has returned it can always take its next step, and its
\* updateCourseStatus steps, one in every turn of the recursion, are at most
\* the lessons, parts and tests of the course, plus one; every step that saves
\* a TAKEN enrollment saves pointers that are greater, in lexicographic order,
\* than those it read.
C7_Terminates ==
  /\ loc["a"].steps <= UnitCount(catalog) + 1
  /\ pc["a"] \notin {"idle", "done"} => CanStep("a")
  /\ (pc["a"] = "check" /\ loc["a"].tx.status = TAKEN)
     => LexLess(Triple(loc["a"].found), Triple(loc["a"].tx))

C7_Witness ==
  /\ pc["a"] = "done"
  /\ loc["a"].kind = "ok"
  /\ loc["a"].steps >= 3
  /\ loc["a"].snap.status = COMPLETED
  /\ Cardinality(catalog.tests) = 0

\* C6: attendAClass for an existing enrollment returns a snapshot, never an
\* error, whatever units the catalog has or lacks; when it returns, the stored
\* pointers resolve to a lesson, a part and a test, or the status is COMPLETED.
C6_SelfHealing ==
  [][\A k \in Keys :
       (IsCall("attendAClass", k) /\ store[k] # NoRecord)
       => /\ last'.kind = "ok"
          /\ last'.snap # NoSnap
          /\ store'[k] # NoRecord
          /\ Resolves(store', catalog', k) \/ store'[k].status = COMPLETED]_vars

\* A call that advanced twice past missing units and came to rest on a test
C6_Witness ==
  /\ last.op = "attendAClass"
  /\ last.kind = "ok"
  /\ last.steps >= 2
  /\ last.snap.status = TAKEN
  /\ last.snap.currentTest # Absent
  /\ Resolves(store, catalog, <<last.user, last.course>>)

\* C8: add for a user and a course that have an enrollment fails with
\* AlreadyEnrolled and leaves the store as it was, so the one record of the
\* pair stays the one it was, after any calls of add, attendAClass,
\* updateCourseStatus, update and delete.
C8_AlreadyEnrolled ==
  [][\A k \in Keys :
       (IsCall("add", k) /\ store[k] # NoRecord)
       => /\ last'.kind = "AlreadyEnrolled"
          /\ last'.snap = NoSnap
          /\ store' = store]_vars

\* A second add for an enrollment that has moved on since the first
C8_Witness ==
  /\ last.op = "add"
  /\ last.kind = "AlreadyEnrolled"
  /\ store[<<last.user, last.course>>] # NoRecord
  /\ store[<<last.user, last.course>>].currentTest > 1

\* The calls that read, update or advance the enrollment of one user and course
KeyedCalls ==
  {"attendAClass", "update", "findByUserIdAndCourseId", "updateCourseStatus"}

\* C9: attendAClass, update, findByUserIdAndCourseId and updateCourseStatus for
\* a user and a course with no enrollment fail with NotEnrolled and create no
\* record.
C9_NotEnrolled ==
  [][\A k \in Keys :
       (store[k] = NoRecord /\ \E op \in KeyedCalls : IsCall(op, k))
       => last'.kind = "NotEnrolled" /\ store' = store]_vars

\* C10: getAllByUserId and getAllByCourseId fail with NoRecordsFound when the
\* store has no enrollment of the user, or of the course, and return the
\* enrollments only when there are some.
C10_EmptyListingFails ==
  last.op \in {"getAllByUserId", "getAllByCourseId"}
  => (last.kind = "NoRecordsFound" <=> last.rows = {})

\* The enrollment of key k is COMPLETED before the step and still stored after
StaysStored(k) ==
  /\ store[k] # NoRecord
  /\ store[k].status = COMPLETED
  /\ store'[k] # NoRecord

\* C11 as stated: once an enrollment is COMPLETED, no call made before it is
\* deleted, update included, stores it as TAKEN again.
C11_StatusOneWay ==
  [][\A k \in Keys : StaysStored(k) => store'[k].status = COMPLETED]_vars

\* C11: once an enrollment is COMPLETED, no call of add, attendAClass or
\* updateCourseStatus, and no read, stores it as TAKEN again; update stores
\* the status its caller gives it.
C11_StatusOneWayButUpdate ==
  [][\A k \in Keys :
       (StaysStored(k) /\ ~IsCall("update", k))
       => store'[k].status = COMPLETED]_vars

\* updateCourseStatus has moved a pointer of an enrollment that update had
\* marked COMPLETED, and it is COMPLETED still
C11_Witness ==
  /\ last.op = "updateCourseStatus"
  /\ last.kind = "ok"
  /\ store[<<last.user, last.course>>] # NoRecord
  /\ store[<<last.user, last.course>>].status = COMPLETED
  /\ store[<<last.user, last.course>>].courseCompleteDate = NoDate
  /\ store[<<last.user, last.course>>].currentTest > 1

\* x is a number from 0 to 100
InRange(x) == IsFinite(x) /\ JsGe(x, Zero) /\ JsGe(Hundred, x)

\* C12: the completition of every stored enrollment is a number from 0 to 100,
\* whatever lessons, parts and tests the course has or lacks.
C12_CompletionInRange ==
  \A k \in Keys : store[k] # NoRecord => InRange(store[k].completition)

\* The units of course c in catalog cat, by their sequence numbers
HasLesson(cat, c, l) == <<c, l>> \in cat.lessons
HasPart(cat, c, l, p) == HasLesson(cat, c, l) /\ <<c, l, p>> \in cat.parts
HasTest(cat, c, l, p, t) == HasPart(cat, c, l, p) /\ <<c, l, p, t>> \in cat.tests

\* Where the carry takes the pointers <<l, p, t>> of enrollment r
Carried(cat, c, r) ==
  LET l == r.currentLesson
      p == r.currentPart
      t == r.currentTest
  IN IF HasTest(cat, c, l, p, t + 1) THEN <<l, p, t + 1>>
     ELSE IF HasPart(cat, c, l, p + 1) THEN <<l, p + 1, 1>>
     ELSE IF HasLesson(cat, c, l + 1) THEN <<l + 1, 1, 1>>
     ELSE <<l, p, t>>

\* C13: updateCourseStatus takes the pointers (l, p, t) to (l, p, t+1) when
\* the current part has a test t+1, else to (l, p+1, 1) when the current
\* lesson has a part p+1, else to (l+1, 1, 1) when the course has a lesson
\* l+1; when it moves a pointer, the status and the dates stay as they were.
C13_Carry ==
  [][\A k \in Keys :
       (IsCall("updateCourseStatus", k) /\ store[k] # NoRecord)
       => /\ last'.kind = "ok"
          /\ Triple(store'[k]) = Carried(catalog, k[2], store[k])
          /\ Triple(store'[k]) # Triple(store[k])
             => /\ store'[k].status = store[k].status
                /\ store'[k].courseStartDate = store[k].courseStartDate
                /\ store'[k].courseCompleteDate = store[k].courseCompleteDate]_vars

\* Two lessons, lesson 1 with one part of one test: a step has led to (2, 1, 1)
C13_Witness ==
  /\ last.op = "updateCourseStatus"
  /\ last.kind = "ok"
  /\ catalog = [lessons |-> {<<"c1", 1>>, <<"c1", 2>>},
                parts |-> {<<"c1", 1, 1>>},
                tests |-> {<<"c1", 1, 1, 1>>}]
  /\ store[<<"u1", "c1">>] # NoRecord
  /\ Triple(store[<<"u1", "c1">>]) = <<2, 1, 1>>
  /\ store[<<"u1", "c1">>].status = TAKEN

\* The formula of completition for enrollment r, with the maxima of the lesson
\* and of the part that the pointers of r themselves identify
PostCompletion(cat, c, r) ==
  LET l == r.currentLesson
      p == r.currentPart
      t == r.currentTest
      perLesson == JsDiv(Hundred, getMaxValueForLesson(cat, c))
      perPart == JsDiv(perLesson, getMaxValueForPart(cat, <<c, l>>))
      perTest == JsDiv(perPart, getMaxValueForTest(cat, <<c, l, p>>))
  IN JsAdd(JsAdd(JsMul(perLesson, l - 1), JsMul(perPart, p - 1)),
           JsMul(perTest, t - 1))

\* The last call ended with an updateCourseStatus step that left the
\* enrollment TAKEN
AdvancedTaken ==
  /\ last.kind = "ok"
  /\ \/ last.op = "updateCourseStatus"
     \/ last.op \in {"add", "attendAClass"} /\ last.steps >= 1
  /\ store[<<last.user, last.course>>] # NoRecord
  /\ store[<<last.user, last.course>>].status = TAKEN

\* C14: after an updateCourseStatus step that leaves the enrollment TAKEN, the
\* stored completition is the formula over the pointers the step produced,
\* with the maxima of the lesson and part those pointers identify.
C14_PostAdvancementFormula ==
  AdvancedTaken
  => store[<<last.user, last.course>>].completition
       = PostCompletion(catalog, last.course, store[<<last.user, last.course>>])

\* Snapshot s carries the lesson, the part and the test at the pointers of the
\* stored enrollment r, and the three exist
CarriesPosition(s, cat, c, r) ==
  /\ s.currentLesson = <<c, r.currentLesson>>
  /\ s.currentPart = <<c, r.currentLesson, r.currentPart>>
  /\ s.currentTest = <<c, r.currentLesson, r.currentPart, r.currentTest>>
  /\ HasTest(cat, c, r.currentLesson, r.currentPart, r.currentTest)

\* Snapshot s carries no unit and reports the course completed
CarriesNothing(s) ==
  /\ s.currentLesson = Absent
  /\ s.currentPart = Absent
  /\ s.currentTest = Absent
  /\ s.status = COMPLETED
  /\ s.completition = Hundred

\* C15: a snapshot attendAClass returns carries the lesson, part and test that
\* exist at the stored pointers, or none of the three with status COMPLETED
\* and completition 100; and when updateCourseStatus has stored COMPLETED the
\* call returns in its next step, with no further updateCourseStatus.
C15_SnapshotShape ==
  /\ [](pc["a"] = "done" /\ loc["a"].kind = "ok"
        => \/ CarriesPosition(loc["a"].snap, catalog, TheCourse, store[TheKey])
           \/ CarriesNothing(loc["a"].snap))
  /\ [][(pc["a"] = "check" /\ loc["a"].courseTaken.status = COMPLETED)
        => (pc'["a"] = "done" /\ loc'["a"].steps = loc["a"].steps
            /\ CarriesNothing(loc'["a"].snap))]_vars

\* A call that advanced twice, completed the course and returned no unit
C15_Witness ==
  /\ pc["a"] = "done"
  /\ loc["a"].kind = "ok"
  /\ loc["a"].steps >= 2
  /\ CarriesNothing(loc["a"].snap)
  /\ store[TheKey].status = COMPLETED

\* Record w has the pointers, the status, the completition and the completion
\* date that updateCourseStatus computes from the record read
WholeStep(w, read) ==
  LET a == advanced(catalog, TheCourse, read, now) IN
  /\ Triple(w) = Triple(a)
  /\ w.status = a.status
  /\ w.completition = a.completition
  /\ w.courseCompleteDate = a.courseCompleteDate

NothingNext(cat, c, r) == Carried(cat, c, r) = Triple(r)

\* C17: when updateCourseStatus finds no next test, part or lesson, it sets
\* the status to COMPLETED, courseCompleteDate to the time of the call and
\* completition to 100, and leaves the pointers and courseStartDate as they
\* were; the three pointers of every stored enrollment are at least 1.
C17_CompletionFrame ==
  /\ [](\A k \in Keys :
          store[k] # NoRecord
          => /\ store[k].currentLesson >= 1
             /\ store[k].currentPart >= 1
             /\ store[k].currentTest >= 1)
  /\ [][\A k \in Keys :
          (/\ IsCall("updateCourseStatus", k)
           /\ store[k] # NoRecord
           /\ NothingNext(catalog, k[2], store[k]))
          => store'[k] = [store[k] EXCEPT !.status = COMPLETED,
                                          !.courseCompleteDate = now,
                                          !.completition = Hundred]]_vars

\* updateCourseStatus has completed an enrollment whose pointers had moved on
C17_Witness ==
  /\ last.op = "updateCourseStatus"
  /\ last.kind = "ok"
  /\ store[<<last.user, last.course>>] # NoRecord
  /\ store[<<last.user, last.course>>].status = COMPLETED
  /\ store[<<last.user, last.course>>].completition = Hundred
  /\ Triple(store[<<last.user, last.course>>]) # <<1, 1, 1>>
  /\ NothingNext(catalog, last.course, store[<<last.user, last.course>>])

\* Course c has no lesson, and so no part and no test
NoContent(cat, c) == \A x \in cat.lessons : x[1] # c

-----------------------------------------------------------------------------
(* A learner who enrolls and then repeats updateCourseStatus, attendAClass,
   until a snapshot reports the course completed, over a hierarchy numbered
   from 1 without gaps that does not change *)

\* The hierarchy holds at most MaxWalk lessons, parts and tests together.
MaxWalk == 7

\* The sequence numbers of cat run from 1 without gaps in every container
Contiguous(cat) ==
  /\ \A x \in cat.lessons : x[2] > 1 => <<x[1], x[2] - 1>> \in cat.lessons
  /\ \A x \in cat.parts : x[3] > 1 => <<x[1], x[2], x[3] - 1>> \in cat.parts
  /\ \A x \in cat.tests : x[4] > 1 => <<x[1], x[2], x[3], x[4] - 1>> \in cat.tests

RECURSIVE ContiguousUpTo(_)
ContiguousUpTo(n) ==
  IF n = 0 THEN {EmptyCatalog}
  ELSE LET smaller == ContiguousUpTo(n - 1) IN
       smaller \cup UNION {{g \in Grown(cat) : Contiguous(g)} : cat \in smaller}

ContiguousCatalogs == ContiguousUpTo(MaxWalk)

\* The position a snapshot carries and its status, as a sequence of none or
\* one
PositionOf(snap) ==
  IF snap.currentTest = Absent THEN <<>>
  ELSE <<[at |-> SubSeq(snap.currentTest, 2, 4), status |-> snap.status]>>

NotEnrolled == [seen |-> <<>>, turn |-> "enroll"]

\* What a call returning r leaves in returned: the position, and the call
\* that comes next, none once the course is reported completed
Walked(user, course, r) ==
  [returned EXCEPT ![<<user, course>>] =
     [seen |-> IF r.kind = "ok" THEN @.seen \o PositionOf(r.snap) ELSE @.seen,
      turn |-> IF r.kind = "ok" /\ r.snap.status = COMPLETED THEN "done"
               ELSE "advance"]]

Enroll(user, course) ==
  LET r == add(store, catalog, user, course, now) IN
  /\ returned[<<user, course>>].turn = "enroll"
  /\ store' = r.store
  /\ last' = Called("add", user, course, r)
  /\ returned' = Walked(user, course, r)
  /\ UNCHANGED <<catalog, now, pc, loc>>

AdvancePointer(user, course) ==
  LET r == updateCourseStatus(store, catalog, user, course, now) IN
  /\ returned[<<user, course>>].turn = "advance"
  /\ store' = r.store
  /\ last' = Called("updateCourseStatus", user, course, r)
  /\ returned' = [returned EXCEPT ![<<user, course>>].turn = "attend"]
  /\ UNCHANGED <<catalog, now, pc, loc>>

AttendNextClass(user, course) ==
  LET r == attendAClass(store, catalog, user, course, now, 0) IN
  /\ returned[<<user, course>>].turn = "attend"
  /\ store' = r.store
  /\ last' = Called("attendAClass", user, course, r)
  /\ returned' = Walked(user, course, r)
  /\ UNCHANGED <<catalog, now, pc, loc>>

InitWalk ==
  /\ store = [k \in Keys |-> NoRecord]
  /\ catalog \in ContiguousCatalogs
  /\ now = 0
  /\ last = NoCall
  /\ returned = [k \in Keys |-> NotEnrolled]
  /\ pc = [p \in Clients |-> "idle"]
  /\ loc = [p \in Clients |-> Idle]

NextWalk ==
  \/ \E user \in Learner, course \in Courses :
       \/ Enroll(user, course)
       \/ AdvancePointer(user, course)
       \/ AttendNextClass(user, course)
  \/ Tick

SpecWalk == InitWalk /\ [][NextWalk]_vars

\* The tests of course c, as positions
ExistingTriples(cat, c) == {SubSeq(x, 2, 4) : x \in {y \in cat.tests : y[1] = c}}

\* The positions of S in increasing lexicographic order
RECURSIVE InOrder(_)
InOrder(S) ==
  IF S = {} THEN <<>>
  ELSE LET first == CHOOSE x \in S : \A y \in S : x = y \/ LexLess(x, y)
       IN <<first>> \o InOrder(S \ {first})

IsPrefix(s, t) == Len(s) <= Len(t) /\ SubSeq(t, 1, Len(s)) = s

\* The positions of the entries of seen
At(seen) == [i \in 1..Len(seen) |-> seen[i].at]

IsTaken(e) == e.status = TAKEN

\* C19: over an unchanging hierarchy numbered from 1 without gaps, the
\* positions that add and then each attendAClass after an updateCourseStatus
\* return are the existing tests in increasing lexicographic order, each once
\* and none skipped, and the course is completed only when all have been
\* returned.
C19_NoTestSkipped ==
  \A k \in Keys :
    LET all == InOrder(ExistingTriples(catalog, k[2]))
        seen == At(returned[k].seen)
    IN /\ IsPrefix(seen, all)
       /\ (store[k] # NoRecord /\ store[k].status = COMPLETED) => seen = all

\* C19, amended: the positions returned with status TAKEN are the existing
\* tests in increasing lexicographic order, each once and none skipped; each
\* call returns the next one or finds the course completed, which it is only
\* when all have been returned; attendAClass on a completed enrollment
\* returns the last test again, or no test.
C19_NoTestSkippedWhileTaken ==
  \A k \in Keys :
    LET all == InOrder(ExistingTriples(catalog, k[2]))
        seen == returned[k].seen
        taken == At(SelectSeq(seen, IsTaken))
    IN /\ IsPrefix(taken, all)
       /\ (store[k] # NoRecord /\ store[k].status = COMPLETED) => taken = all
       /\ \A i \in 1..Len(seen) :
            seen[i].status = COMPLETED
            => /\ seen[i].at = all[Len(all)]
               /\ \A j \in 1..i : seen[j].status = TAKEN => j < i
       /\ (returned[k].turn \in {"advance", "done"} /\ last.op \in {"add", "attendAClass"})
          => /\ store[k] # NoRecord
             /\ last.kind = "ok"
             /\ \/ store[k].status = COMPLETED
                \/ /\ Len(taken) >= 1
                   /\ Triple(store[k]) = taken[Len(taken)]
                   /\ last.user = k[1] => At(PositionOf(last.snap)) = <<Triple(store[k])>>

\* The learner has been returned three tests, across a test and a part that
\* ended, has completed the course and has been returned the last test again
C19_Witness ==
  \E k \in Keys :
    /\ At(returned[k].seen) = <<<<1, 1, 1>>, <<1, 1, 2>>, <<1, 2, 1>>, <<1, 2, 1>>>>
    /\ store[k] # NoRecord
    /\ store[k].status = COMPLETED
    /\ last.op = "attendAClass"

====
